---- MODULE Spec2Model ----
(***************************************************************************)
(* Model of the development servers of vdx-web.                            *)
(*                                                                         *)
(*   app/test-server.py : handle_request routes every request to           *)
(*     handle_options, proxy_request (the Forwarder) or serve_file (the    *)
(*     Resolver).                                                          *)
(*                                                                         *)
(* Python strings that the code inspects (request paths, file names,       *)
(* Set-Cookie values) are sequences of one-character strings, so that      *)
(* startswith, lstrip, split, suffix and replace are computed as the code  *)
(* computes them.  Strings that are only compared as a whole (header       *)
(* names, bodies, fixed header values) are sequences of larger pieces.     *)
(***************************************************************************)
EXTENDS Integers, Sequences, FiniteSets, TLC

(***************************************************************************)
(* Bounds of the model.                                                    *)
(***************************************************************************)
\* Request paths have at most MaxSegs "/"-separated segments.
MaxSegs == 3
\* The origin's response carries at most MaxHdrs header lines.
MaxHdrs == 2
\* Besides the task it is running, the event loop holds NumParked tasks.
NumParked == 1
\* Modification times of the watched tree take the values 1..MaxVer.
MaxVer == 2

(***************************************************************************)
(* String helpers (Python str methods).                                    *)
(***************************************************************************)
\* str.startswith
startswith(s, p) == Len(p) <= Len(s) /\ SubSeq(s, 1, Len(p)) = p

\* str.lstrip('/')
RECURSIVE lstrip_slash(_)
lstrip_slash(s) ==
    IF s # <<>> /\ Head(s) = "/" THEN lstrip_slash(Tail(s)) ELSE s

\* s.split('/'): the components between slashes, empty ones included
RECURSIVE split_acc(_, _, _)
split_acc(s, cur, acc) ==
    IF s = <<>> THEN Append(acc, cur)
    ELSE IF Head(s) = "/" THEN split_acc(Tail(s), <<>>, Append(acc, cur))
    ELSE split_acc(Tail(s), Append(cur, Head(s)), acc)

split_slash(s) == split_acc(s, <<>>, <<>>)

\* Index of the first occurrence of pat in s at or after position i, 0 if none
RECURSIVE find_from(_, _, _)
find_from(s, pat, i) ==
    IF i + Len(pat) - 1 > Len(s) THEN 0
    ELSE IF SubSeq(s, i, i + Len(pat) - 1) = pat THEN i
    ELSE find_from(s, pat, i + 1)

\* str.replace(pat, ''): one left-to-right pass over non-overlapping occurrences
RECURSIVE str_remove(_, _)
str_remove(s, pat) ==
    LET i == find_from(s, pat, 1) IN
    IF i = 0 THEN s
    ELSE SubSeq(s, 1, i - 1) \o str_remove(SubSeq(s, i + Len(pat), Len(s)), pat)

\* str.rfind('.'), 1-based, 0 if none
RECURSIVE rfind_dot(_, _)
rfind_dot(s, i) ==
    IF i = 0 THEN 0 ELSE IF s[i] = "." THEN i ELSE rfind_dot(s, i - 1)

(***************************************************************************)
(* Names used by the code and by the file-system fixture.                  *)
(***************************************************************************)
INDEX_HTML == <<"i", "n", "d", "e", "x", ".", "h", "t", "m", "l">>
DOTDOT     == <<".", ".">>
N_APP      == <<"a", "p", "p">>
N_ETC      == <<"e", "t", "c">>
N_PASSWD   == <<"p", "a", "s", "s", "w", "d">>
N_DOCS     == <<"d", "o", "c", "s">>
N_APPJS    == <<"a", "p", "p", ".", "j", "s">>
N_LIB      == <<"l", "i", "b">>
N_SETTINGS == <<"s", "e", "t", "t", "i", "n", "g", "s">>
N_SPAAPI   == <<"s", "p", "a", "-", "a", "p", "i">>
N_THEME    == <<"t", "h", "e", "m", "e">>

\* Paths to proxy to the remote server
PROXY_PATHS ==
    << <<"/", "s", "p", "a", "-", "a", "p", "i">>,
       <<"/", "s", "p", "w", "g", "-", "a", "p", "i">>,
       <<"/", "t", "h", "e", "m", "e", "/">> >>

PROXY_HOST == "https://iwalton.com"

\* Base directory for serving files: the canonical directory of the script,
\* as a sequence of path components below the file-system root.
BASE_DIR == <<N_APP>>

(***************************************************************************)
(* pathlib and the file system.                                            *)
(*                                                                         *)
(* A path is the sequence of its components below the file-system root.    *)
(* The fixture: / holds etc/passwd, a foreign index.html and app/ (the     *)
(* BASE_DIR); app/ holds app.js, docs/index.html, the symbolic link        *)
(* lib -> /etc and, in some runs, index.html.                              *)
(***************************************************************************)
DIRS == { <<>>, <<N_ETC>>, <<N_APP>>, <<N_APP, N_DOCS>> }

SYMLINKS == { <<N_APP, N_LIB>> }

readlink(p) == <<N_ETC>>

ROOT_INDEX == BASE_DIR \o <<INDEX_HTML>>

FixedFiles ==
    { <<INDEX_HTML>>, <<N_ETC, N_PASSWD>>, <<N_APP, N_APPJS>>,
      <<N_APP, N_DOCS, INDEX_HTML>> }

\* The file systems a request may find: with and without the root index.html
FileSystems == { FixedFiles, FixedFiles \cup {ROOT_INDEX} }

\* Path.read_bytes(): every file has its own contents
read_bytes(p) ==
    CASE p = ROOT_INDEX                      -> "<html>app shell</html>"
      [] p = <<N_APP, N_DOCS, INDEX_HTML>>   -> "<html>docs</html>"
      [] p = <<N_APP, N_APPJS>>              -> "console.log('app')"
      [] p = <<N_ETC, N_PASSWD>>             -> "root:x:0:0"
      [] p = <<INDEX_HTML>>                  -> "<html>foreign</html>"
      [] OTHER                               -> "?"

\* PurePath parsing: empty and "." components are dropped, ".." is kept
path_parts(s) ==
    SelectSeq(split_slash(s), LAMBDA c : c # <<>> /\ c # <<".">>)

\* BASE_DIR / path, for a path that does not start with a slash
joinpath(base, s) == base \o path_parts(s)

\* PurePath.name: the last component
path_name(fp) == IF fp = <<>> THEN <<>> ELSE fp[Len(fp)]

\* PurePath.suffix: name[i:] for the last dot at i, if 0 < i < len(name) - 1
suffix(name) ==
    LET i == rfind_dot(name, Len(name)) IN
    IF 1 < i /\ i < Len(name) THEN SubSeq(name, i, Len(name)) ELSE <<>>

parent(p) == IF p = <<>> THEN <<>> ELSE SubSeq(p, 1, Len(p) - 1)

\* The operating system's path walk (stat): the set holding the node the path
\* designates, or the empty set when a component is missing or not a directory.
RECURSIVE os_walk(_, _, _)
os_walk(cur, rest, fs) ==
    IF rest = <<>> THEN {cur}
    ELSE IF cur \notin DIRS THEN {}
    ELSE IF Head(rest) = DOTDOT THEN os_walk(parent(cur), Tail(rest), fs)
    ELSE LET n == Append(cur, Head(rest)) IN
         IF n \in SYMLINKS THEN os_walk(readlink(n), Tail(rest), fs)
         ELSE IF n \in DIRS \cup fs THEN os_walk(n, Tail(rest), fs)
         ELSE {}

\* Path.is_dir(), Path.is_file(), Path.exists(): all follow symbolic links
is_dir(fp, fs)  == os_walk(<<>>, fp, fs) \cap DIRS # {}
is_file(fp, fs) == os_walk(<<>>, fp, fs) \cap fs # {}
exists(fp, fs)  == os_walk(<<>>, fp, fs) # {}

\* Path.resolve() (os.path.realpath, not strict): symbolic links are replaced
\* by their targets, ".." drops the last component of what is resolved so far,
\* missing components are kept as they are.
RECURSIVE realpath(_, _)
realpath(cur, rest) ==
    IF rest = <<>> THEN cur
    ELSE IF Head(rest) = DOTDOT THEN realpath(parent(cur), Tail(rest))
    ELSE LET n == Append(cur, Head(rest)) IN
         IF n \in SYMLINKS THEN realpath(readlink(n), Tail(rest))
         ELSE realpath(n, Tail(rest))

resolve(fp) == realpath(<<>>, fp)

\* PurePath.relative_to(base) succeeds iff base's components start the path's
relative_to_ok(fp, base) ==
    Len(base) <= Len(fp) /\ SubSeq(fp, 1, Len(base)) = base

\* mimetypes.guess_type on the fixture's extensions
guess_type(fp) ==
    LET ext == suffix(path_name(fp)) IN
    CASE ext = <<".", "h", "t", "m", "l">> -> "text/html"
      [] ext = <<".", "j", "s">>           -> "application/javascript"
      [] OTHER                             -> ""

(***************************************************************************)
(* Responses.  A response is [status, headers, body]; headers is the       *)
(* sequence of header lines [name, value] in the order they were added,    *)
(* body is a sequence of text pieces (<<>> is the empty body).             *)
(***************************************************************************)
hdr(n, v) == [name |-> n, value |-> v]

CORS_ORIGIN  == "Access-Control-Allow-Origin"
CORS_METHODS == "Access-Control-Allow-Methods"
CORS_HEADERS == "Access-Control-Allow-Headers"

\* web.Response(text=..., status=...): aiohttp sets a text/plain content type
text_response(text, status) ==
    [status  |-> status,
     headers |-> << hdr("Content-Type", <<"text/plain", "; charset=utf-8">>) >>,
     body    |-> text]

\* web.Response(body=content, content_type=..., charset=...)
file_response(content, content_type, charset) ==
    [status  |-> 200,
     headers |-> << hdr("Content-Type",
                        IF charset = "" THEN <<content_type>>
                        ELSE <<content_type, "; charset=", charset>>) >>,
     body    |-> <<content>>]

\* handle_options: the CORS preflight answer
handle_options ==
    [status  |-> 200,
     headers |-> << hdr(CORS_ORIGIN, <<"*">>),
                    hdr(CORS_METHODS, <<"GET, POST, OPTIONS">>),
                    hdr(CORS_HEADERS, <<"Content-Type">>) >>,
     body    |-> <<>>]

(***************************************************************************)
(* serve_file up to its file read.                                         *)
(***************************************************************************)
\* The SPA test as it would be if it asked whether the path exists at all
spa_fallback_if_missing(file_path, fs) ==
    suffix(path_name(file_path)) = <<>> /\ ~exists(file_path, fs)

\* SPA routing: no extension and not a directory
spa_fallback(file_path, fs) ==
    suffix(path_name(file_path)) = <<>> /\ ~is_dir(file_path, fs)

\* The security check as it would be against the parent of BASE_DIR
within_base_parent(resolved) == relative_to_ok(resolved, parent(BASE_DIR))

\* The security check: the resolved path is within BASE_DIR
within_base(resolved) == relative_to_ok(resolved, BASE_DIR)

\* The candidate after the leading-slash strip, the index default, the SPA
\* fallback and the directory index
candidate(path, fs) ==
    LET stripped == lstrip_slash(path)
        path1 == IF stripped = <<>> THEN INDEX_HTML ELSE stripped
        fp1 == joinpath(BASE_DIR, path1)
        fp2 == IF spa_fallback(fp1, fs) THEN BASE_DIR \o <<INDEX_HTML>> ELSE fp1
    IN  IF is_dir(fp2, fs) THEN Append(fp2, INDEX_HTML) ELSE fp2

\* serve_file from its entry to its await: either a response (403, 404) or
\* the read of the resolved file that is handed to the executor
serve_file(path, fs) ==
    LET file_path == resolve(candidate(path, fs)) IN
    IF ~within_base(file_path)
    THEN [kind |-> "response", response |-> text_response(<<"Forbidden">>, 403)]
    ELSE IF ~exists(file_path, fs) \/ ~is_file(file_path, fs)
    THEN [kind |-> "response", response |-> text_response(<<"Not Found">>, 404)]
    ELSE LET guessed == guess_type(file_path)
             content_type == IF guessed = "" THEN "application/octet-stream"
                             ELSE guessed
             charset == IF content_type \in {"text/html", "application/javascript"}
                        THEN "utf-8" ELSE ""
         IN  [kind |-> "read", file_path |-> file_path,
              content_type |-> content_type, charset |-> charset]

\* serve_file after the read: the file's contents or the 500 of the except
serve_file_done(read, ok) ==
    IF ok THEN file_response(read_bytes(read.file_path), read.content_type,
                             read.charset)
    ELSE text_response(<<"Internal Server Error">>, 500)

(***************************************************************************)
(* proxy_request: the header rewrite and the failure mapping.              *)
(***************************************************************************)
\* str.lower() on the header names of the model
lower(n) ==
    CASE n = "Set-Cookie"                  -> "set-cookie"
      [] n = "Content-Type"                -> "content-type"
      [] n = "Transfer-Encoding"           -> "transfer-encoding"
      [] n = "CONNECTION"                  -> "connection"
      [] n = "Content-Encoding"            -> "content-encoding"
      [] n = "X-Request-Id"                -> "x-request-id"
      [] n = "User-Agent"                  -> "user-agent"
      [] n = "Cookie"                      -> "cookie"
      [] n = "Host"                        -> "host"
      [] n = "Authorization"               -> "authorization"
      [] n = "Access-Control-Allow-Origin"  -> "access-control-allow-origin"
      [] n = "Access-Control-Allow-Methods" -> "access-control-allow-methods"
      [] n = "Access-Control-Allow-Headers" -> "access-control-allow-headers"
      [] OTHER                             -> n

SKIPPED_HEADERS == {"transfer-encoding", "connection", "content-encoding"}

SEMI_SP_SECURE == <<";", " ", "S", "e", "c", "u", "r", "e">>
SEMI_SECURE    == <<";", "S", "e", "c", "u", "r", "e">>

\* value.replace('; Secure', '').replace(';Secure', '')
strip_secure(value) == str_remove(str_remove(value, SEMI_SP_SECURE), SEMI_SECURE)

\* response_headers[key] = value on a dict: an existing key keeps its place
\* and takes the new value, a new key is added at the end
dict_set(d, key, value) ==
    IF \E i \in 1..Len(d) : d[i].name = key
    THEN [i \in 1..Len(d) |-> IF d[i].name = key THEN hdr(key, value) ELSE d[i]]
    ELSE Append(d, hdr(key, value))

\* One pass of the loop over response.headers.items()
copy_header(d, h) ==
    IF lower(h.name) \notin SKIPPED_HEADERS
    THEN dict_set(d, h.name,
                  IF lower(h.name) = "set-cookie" THEN strip_secure(h.value)
                  ELSE h.value)
    ELSE d

RECURSIVE copy_headers(_, _)
copy_headers(items, d) ==
    IF items = <<>> THEN d
    ELSE copy_headers(Tail(items), copy_header(d, Head(items)))

\* Add CORS headers
add_cors(d) ==
    dict_set(dict_set(dict_set(d, CORS_ORIGIN, <<"*">>),
                      CORS_METHODS, <<"GET, POST, OPTIONS">>),
             CORS_HEADERS, <<"Content-Type">>)

\* The response of a successful outbound call
proxy_success(o) ==
    [status  |-> o.status,
     headers |-> add_cors(copy_headers(o.headers, <<>>)),
     body    |-> o.body]

\* timeout=aiohttp.ClientTimeout(total=30)
TIMEOUT_TOTAL == 30

\* The except clauses as they would be with ClientError caught first
proxy_failure_client_first(e) ==
    IF "aiohttp.ClientError" \in e.bases
    THEN text_response(<<"Proxy error: ", e.msg>>, 502)
    ELSE IF "asyncio.TimeoutError" \in e.bases
    THEN text_response(<<"Proxy timeout">>, 504)
    ELSE text_response(<<"Server error: ", e.msg>>, 500)

\* The except clauses, tried in the order they are written
proxy_failure(e) ==
    IF "asyncio.TimeoutError" \in e.bases
    THEN text_response(<<"Proxy timeout">>, 504)
    ELSE IF "aiohttp.ClientError" \in e.bases
    THEN text_response(<<"Proxy error: ", e.msg>>, 502)
    ELSE text_response(<<"Server error: ", e.msg>>, 500)

\* request.headers is a case-insensitive multi-dict: `name in request.headers`
headers_has(h, name) ==
    \E i \in 1..Len(h) : lower(h[i].name) = lower(name)

\* request.headers.get(name, default): the first line of that name
headers_get(h, name, default) ==
    IF headers_has(h, name)
    THEN h[CHOOSE i \in 1..Len(h) :
                /\ lower(h[i].name) = lower(name)
                /\ \A j \in 1..(i - 1) : lower(h[j].name) # lower(name)].value
    ELSE default

\* request.path_qs: the path, then "?" and the query string when there is one
path_qs(path, query) ==
    IF query = <<>> THEN path ELSE path \o <<"?">> \o query

\* target_url = PROXY_HOST + request.path_qs
target_url(path, query) == <<PROXY_HOST>> \o path_qs(path, query)

\* Every inbound header line copied, then the two defaults
outbound_headers_forward_all(h) ==
    LET d1 == copy_headers(h, <<>>)
        d2 == IF headers_has(h, "User-Agent") THEN d1
              ELSE dict_set(d1, "User-Agent", <<"Mozilla/5.0">>)
    IN  IF headers_has(h, "Content-Type") THEN d2
        ELSE dict_set(d2, "Content-Type", <<"application/json">>)

\* The headers dict of the outbound request: two entries, and Cookie when
\* the inbound request has one
outbound_headers(h) ==
    LET d == << hdr("User-Agent",
                    headers_get(h, "User-Agent", <<"Mozilla/5.0">>)),
                hdr("Content-Type",
                    headers_get(h, "Content-Type", <<"application/json">>)) >>
    IN  IF headers_has(h, "Cookie")
        THEN dict_set(d, "Cookie", headers_get(h, "Cookie", <<>>))
        ELSE d

\* session.request(method, target_url, headers=headers, data=body, ...);
\* body is the empty set for None
outbound_request(method, path, inb, body) ==
    [method  |-> method,
     url     |-> target_url(path, inb.query),
     headers |-> outbound_headers(inb.headers),
     data    |-> body]

\* What the outbound call can raise.  ServerTimeoutError derives from both
\* ClientError and asyncio.TimeoutError.
E_TIMEOUT ==
    [type |-> "TimeoutError", bases |-> {"asyncio.TimeoutError", "Exception"},
     msg |-> ""]
E_SERVER_TIMEOUT ==
    [type |-> "ServerTimeoutError",
     bases |-> {"asyncio.TimeoutError", "aiohttp.ClientError", "Exception"},
     msg |-> "Timeout on reading data from socket"]
E_CONNECT ==
    [type |-> "ClientConnectorError", bases |-> {"aiohttp.ClientError", "Exception"},
     msg |-> "Cannot connect to host iwalton.com:443"]
E_DNS ==
    [type |-> "ClientConnectorDNSError", bases |-> {"aiohttp.ClientError", "Exception"},
     msg |-> "Name or service not known"]
E_MALFORMED ==
    [type |-> "ClientResponseError", bases |-> {"aiohttp.ClientError", "Exception"},
     msg |-> "400, message='Bad status line'"]
E_INTERNAL ==
    [type |-> "RuntimeError", bases |-> {"Exception"}, msg |-> "Session is closed"]

OutboundErrors == {E_SERVER_TIMEOUT, E_CONNECT, E_DNS, E_MALFORMED, E_INTERNAL}

\* Durations of the outbound call, in seconds: within and beyond the timeout
Latencies == {1, TIMEOUT_TOTAL + 1}

\* The outbound call made with a blocking client: the loop is not released
yields_loop_blocking_outbound(p) == p # "outbound"

\* Whether a handler standing at p has released the event loop: every point
\* where the handlers wait is an await (request.read(), session.request and
\* response.read(), run_in_executor), and a handler that returned is gone
yields_loop(p) ==
    p \in {"idle", "read_body", "outbound", "read_file", "done", "failed"}

(***************************************************************************)
(* handle_request: the Router.                                             *)
(***************************************************************************)
\* any(request.path.startswith(path) for path in PROXY_PATHS)
is_proxied(path) ==
    \E i \in 1..Len(PROXY_PATHS) : startswith(path, PROXY_PATHS[i])

\* handle_request as it would be with only the first prefix tested
handle_request_first_prefix(method, path) ==
    IF method = "OPTIONS" THEN "handle_options"
    ELSE IF startswith(path, PROXY_PATHS[1]) THEN "proxy_request"
    ELSE "serve_file"

\* handle_request as it would be with the prefix test ahead of the OPTIONS test
handle_request_proxy_first(method, path) ==
    IF is_proxied(path) THEN "proxy_request"
    ELSE IF method = "OPTIONS" THEN "handle_options"
    ELSE "serve_file"

\* The handler handle_request delegates to
handle_request(method, path) ==
    IF method = "OPTIONS" THEN "handle_options"
    ELSE IF is_proxied(path) THEN "proxy_request"
    ELSE "serve_file"

(***************************************************************************)
(* Inputs.                                                                 *)
(***************************************************************************)
Methods == {"GET", "POST", "OPTIONS"}

Segments ==
    { <<>>, DOTDOT, N_ETC, N_PASSWD, INDEX_HTML, N_DOCS, N_APPJS, N_SETTINGS,
      N_SPAAPI, N_THEME, N_LIB }

\* "/" s1 "/" s2 ... "/" sn
RECURSIVE SegPaths(_)
SegPaths(n) ==
    IF n = 0 THEN { <<>> }
    ELSE { p \o <<"/">> \o sg : p \in SegPaths(n - 1), sg \in Segments }

\* Every request path of at most MaxSegs segments
RequestPaths == UNION { SegPaths(n) : n \in 1..MaxSegs }

\* A few paths, proxied and local, for the runs that vary the origin's answer
FewPaths ==
    { <<"/">> \o N_SPAAPI,
      <<"/">> \o N_THEME \o <<"/">> \o N_APPJS,
      <<"/">> \o N_APPJS,
      <<"/">> \o DOTDOT }

CK_A      == <<"a", "=", "1">>
CK_B      == <<"b", "=", "2">>
CK_C      == <<"c", "=", "3">>
CK_D      == <<"d", "=", "4">>
CK_E      == <<"e", "=", "5">>
AT_PATH   == <<";", " ", "P", "a", "t", "h", "=", "/">>

\* Set-Cookie values: four cookies, with and without the Secure attribute
CookieValues ==
    { CK_A \o SEMI_SP_SECURE \o AT_PATH,
      CK_B \o AT_PATH \o SEMI_SECURE,
      CK_C \o SEMI_SP_SECURE,
      CK_D \o AT_PATH }

\* The header lines an origin response is made of
OriginHeaderLines ==
    { hdr("Set-Cookie", v) : v \in CookieValues }
    \cup
    { hdr("set-cookie", CK_E \o SEMI_SECURE \o AT_PATH),
      hdr("Content-Type", <<"application/json">>),
      hdr("Transfer-Encoding", <<"chunked">>),
      hdr("CONNECTION", <<"close">>),
      hdr("Content-Encoding", <<"gzip">>),
      hdr("X-Request-Id", <<"42">>),
      hdr("Access-Control-Allow-Origin", <<"https://iwalton.com">>),
      hdr("access-control-allow-origin", <<"null">>) }

\* Sequences of n different header lines
RECURSIVE HeaderSeqs(_)
HeaderSeqs(n) ==
    IF n = 0 THEN { <<>> }
    ELSE UNION { { Append(hs, h) :
                     h \in { x \in OriginHeaderLines :
                               \A i \in 1..Len(hs) : hs[i] # x } } :
                 hs \in HeaderSeqs(n - 1) }

OriginStatuses == {200, 404}

\* Origin responses with at most MaxHdrs header lines
OriginResponses ==
    { [status |-> st, headers |-> hs, body |-> <<"{\"ok\":true}">>] :
        st \in OriginStatuses, hs \in UNION { HeaderSeqs(n) : n \in 0..MaxHdrs } }

\* Origin responses with no header line or a content type only
PlainResponses ==
    { [status |-> st, headers |-> hs, body |-> <<"{\"ok\":true}">>] :
        st \in OriginStatuses,
        hs \in { <<>>, << hdr("Content-Type", <<"application/json">>) >> } }

\* The header lines an inbound request is made of
InboundHeaderLines ==
    << hdr("User-Agent", <<"curl/8.0">>),
       hdr("content-type", <<"text/plain">>),
       hdr("Cookie", <<"sid=1">>),
       hdr("Host", <<"localhost:9000">>),
       hdr("Authorization", <<"Bearer t0ken">>) >>

\* The lines of InboundHeaderLines whose index is in S, in their order
RECURSIVE pick_lines(_, _)
pick_lines(S, i) ==
    IF i > Len(InboundHeaderLines) THEN <<>>
    ELSE (IF i \in S THEN <<InboundHeaderLines[i]>> ELSE <<>>)
            \o pick_lines(S, i + 1)

QueryStrings == { <<>>, <<"q", "=", "1">> }

\* What comes with an inbound request besides method and path: its header
\* lines, its query string and its body
InboundRequests ==
    { [headers |-> pick_lines(S, 1), query |-> q, body |-> <<"{\"q\":1}">>] :
        S \in SUBSET (1..Len(InboundHeaderLines)), q \in QueryStrings }

\* A request with a Host line only, no query string
PlainInbound ==
    { [headers |-> << hdr("Host", <<"localhost:9000">>) >>, query |-> <<>>,
       body |-> <<"{\"q\":1}">>] }

(***************************************************************************)
(* dev-server.py: the change watcher and the build callback.               *)
(***************************************************************************)
DOT_TS == <<".", "t", "s">>

WATCH_EXTENSIONS == { DOT_TS }

IGNORE_PATTERNS ==
    { <<"n", "o", "d", "e", "_", "m", "o", "d", "u", "l", "e", "s">>,
      <<".", "g", "i", "t">>,
      <<"_", "_", "p", "y", "c", "a", "c", "h", "e", "_", "_">> }

\* The files of the directory tree the watcher runs in
A_TS     == <<"a", ".", "t", "s">>
B_TS     == <<"b", ".", "t", "s">>
GIT_C_TS == <<".", "g", "i", "t", "/", "c", ".", "t", "s">>

DiskFiles == { A_TS, B_TS, GIT_C_TS }

\* st_mtime values; 0 stands for a file that does not exist
Mtimes == 0..MaxVer

\* self.directory.rglob(f'*{ext}'): the existing files whose name ends in ext
rglob(d, ext) ==
    { f \in DOMAIN d :
          /\ d[f] # 0
          /\ Len(f) >= Len(ext)
          /\ SubSeq(f, Len(f) - Len(ext) + 1, Len(f)) = ext }

\* any(pattern in str(file_path) for pattern in IGNORE_PATTERNS)
ignored(f) == \E pattern \in IGNORE_PATTERNS : find_from(f, pattern, 1) # 0

\* FileWatcher.get_watched_files: {file_path: st_mtime}
get_watched_files(d) ==
    LET found == { f \in UNION { rglob(d, ext) : ext \in WATCH_EXTENSIONS } :
                     ~ignored(f) }
    IN  [f \in found |-> d[f]]

\* check_changes without its second loop: deleted files go unnoticed
check_changes_no_deleted(file_times, current_files) ==
    LET lines == { <<"New file", f>> :
                      f \in DOMAIN current_files \ DOMAIN file_times }
                 \cup
                 { <<"Changed", f>> :
                      f \in { g \in DOMAIN current_files \cap DOMAIN file_times :
                                file_times[g] # current_files[g] } }
    IN  [changed |-> lines # {}, log |-> lines, file_times |-> current_files]

\* FileWatcher.check_changes, given the stored and the fresh snapshot: the
\* value it returns, the lines it logs and the snapshot it stores
check_changes(file_times, current_files) ==
    LET new_or_modified ==
            { <<"New file", f>> :
                 f \in DOMAIN current_files \ DOMAIN file_times }
            \cup
            { <<"Changed", f>> :
                 f \in { g \in DOMAIN current_files \cap DOMAIN file_times :
                           file_times[g] # current_files[g] } }
        deleted ==
            { <<"Deleted", f>> :
                 f \in DOMAIN file_times \ DOMAIN current_files }
    IN  [changed    |-> new_or_modified # {} \/ deleted # {},
         log        |-> new_or_modified \cup deleted,
         file_times |-> current_files]

\* One call of the callback for every line check_changes logged
callbacks_per_line(changed, lines) == Cardinality(lines)

\* if self.check_changes(): self.callback()
callbacks_due(changed, lines) == IF changed THEN 1 ELSE 0

\* How the run of the compiler can end: exit code 0, another exit code, no
\* npx executable (FileNotFoundError), any other exception
Outcomes == {"exit0", "exit1", "missing", "error"}

\* compile_typescript without its last except clause
compile_typescript_uncaught(outcome) ==
    [raised |-> outcome = "error", value |-> outcome = "exit0"]

\* compile_typescript: every outcome is logged and answered True or False
compile_typescript(outcome) ==
    [raised |-> FALSE, value |-> outcome = "exit0"]

(***************************************************************************)
(* State.                                                                  *)
(***************************************************************************)
VARIABLES
    pc,        \* where the request in progress stands
    files,     \* the regular files of the file system
    request,   \* the request in progress: [method, path]
    called,    \* the handlers handle_request has delegated it to
    pending,   \* the file read serve_file awaits, if any
    origin,    \* the origin's response, once it has arrived
    raised,    \* the exception the awaited call raised, if any
    elapsed,   \* how long the outbound call took, in seconds
    response,  \* the response handle_request returned, if any
    inbound,   \* the request in progress: [headers, query, body]
    outbound,  \* the request sent to the origin, if any
    parked,    \* the other tasks of the event loop, each as it last yielded
    behind     \* the parked tasks that were awaiting when the request in
               \* progress was dispatched and have not been resumed since

\* dev-server.py
VARIABLES
    disk,        \* the st_mtime of every file of the watched tree
    main_pc,     \* where the main thread stands in main()
    watch_pc,    \* where the watcher thread stands in watch_loop()
    running,     \* FileWatcher.running
    file_times,  \* FileWatcher.file_times, the stored snapshot
    changed,     \* what check_changes returned in this poll cycle
    logged,      \* the file lines check_changes logged in this poll cycle
    calls,       \* the callbacks invoked in this poll cycle
    last,        \* how the compiler run of the last callback ended
    compiled,    \* the watched files as they were when the last run began
    touched      \* the threads that used file_times since the loop started

server_vars == <<pc, files, request, called, pending, origin, raised, elapsed,
                 response, inbound, outbound, parked, behind>>

watch_vars == <<disk, main_pc, watch_pc, running, file_times, changed, logged,
                calls, last, compiled, touched>>

vars == <<server_vars, watch_vars>>

NoRequest == [method |-> "", path |-> <<>>]

NoInbound == [headers |-> <<>>, query |-> <<>>, body |-> <<>>]

\* A handler that has not been started
IdleTask ==
    [pc |-> "idle", request |-> NoRequest, called |-> {}, pending |-> {},
     origin |-> {}, raised |-> {}, elapsed |-> 0, response |-> {},
     inbound |-> NoInbound, outbound |-> {}, behind |-> {}]

\* The task the event loop is running
current ==
    [pc |-> pc, request |-> request, called |-> called, pending |-> pending,
     origin |-> origin, raised |-> raised, elapsed |-> elapsed,
     response |-> response, inbound |-> inbound, outbound |-> outbound,
     behind |-> behind]

\* The points where a handler awaits
Awaiting == {"read_body", "outbound", "read_file"}

\* The parked tasks that are awaiting
waiting == { t \in DOMAIN parked : parked[t].pc \in Awaiting }

Init ==
    /\ pc = "idle"
    /\ files \in FileSystems
    /\ request = NoRequest
    /\ called = {}
    /\ pending = {}
    /\ origin = {}
    /\ raised = {}
    /\ elapsed = 0
    /\ response = {}
    /\ inbound = NoInbound
    /\ outbound = {}
    /\ parked = [t \in 1..NumParked |-> IdleTask]
    /\ behind = {}
    /\ disk = [f \in DiskFiles |-> 1]
    /\ main_pc = "compile_typescript"
    /\ watch_pc = "unstarted"
    /\ running = FALSE
    /\ file_times = <<>>
    /\ changed = FALSE
    /\ logged = {}
    /\ calls = 0
    /\ last = "none"
    /\ compiled = <<>>
    /\ touched = {}

\* handle_request, OPTIONS branch: handle_options answers at once
HandleOptions(paths, inbounds) ==
    /\ pc = "idle"
    /\ UNCHANGED watch_vars
    /\ \E m \in Methods, p \in paths, inb \in inbounds :
            /\ handle_request(m, p) = "handle_options"
            /\ request' = [method |-> m, path |-> p]
            /\ inbound' = inb
            /\ behind' = waiting
            /\ called' = {"handle_options"}
            /\ response' = {handle_options}
            /\ pc' = "done"
            /\ UNCHANGED <<files, parked, pending, origin, raised, elapsed, outbound>>

\* handle_request, proxy branch: proxy_request runs to its first await, the
\* read of the inbound body for POST, the outbound call otherwise
ProxyRequest(paths, inbounds) ==
    /\ pc = "idle"
    /\ UNCHANGED watch_vars
    /\ \E m \in Methods, p \in paths, inb \in inbounds :
            /\ handle_request(m, p) = "proxy_request"
            /\ request' = [method |-> m, path |-> p]
            /\ inbound' = inb
            /\ behind' = waiting
            /\ called' = {"proxy_request"}
            /\ pc' = IF m = "POST" THEN "read_body" ELSE "outbound"
            /\ outbound' = IF m = "POST" THEN {}
                           ELSE { outbound_request(m, p, inb, {}) }
            /\ UNCHANGED <<files, parked, pending, origin, raised, elapsed, response>>

\* body = await request.read(), outside the try block
ReadBody ==
    /\ pc = "read_body"
    /\ UNCHANGED watch_vars
    /\ \/ /\ pc' = "outbound"
          /\ outbound' = { outbound_request(request.method, request.path,
                                             inbound, {inbound.body}) }
          /\ UNCHANGED raised
       \/ /\ pc' = "failed"
          /\ UNCHANGED outbound
          /\ raised' = { [type |-> "ClientPayloadError",
                          bases |-> {"aiohttp.ClientError", "Exception"},
                          msg |-> "Response payload is not completed"] }
    /\ UNCHANGED <<files, parked, behind, request, called, pending, origin, elapsed, response,
                   inbound>>

\* The outbound call returns the origin's response within the timeout
OutboundResponse(answers) ==
    /\ pc = "outbound"
    /\ UNCHANGED watch_vars
    /\ \E o \in answers, t \in Latencies :
            /\ t <= TIMEOUT_TOTAL
            /\ origin' = {o}
            /\ elapsed' = t
            /\ response' = {proxy_success(o)}
            /\ pc' = "done"
            /\ UNCHANGED <<files, parked, behind, request, called, pending, raised, inbound,
                           outbound>>

\* The outbound call is still running when the total timeout expires
OutboundTimeout ==
    /\ pc = "outbound"
    /\ UNCHANGED watch_vars
    /\ \E t \in Latencies :
            /\ t > TIMEOUT_TOTAL
            /\ raised' = {E_TIMEOUT}
            /\ elapsed' = t
            /\ response' = {proxy_failure(E_TIMEOUT)}
            /\ pc' = "done"
            /\ UNCHANGED <<files, parked, behind, request, called, pending, origin, inbound,
                           outbound>>

\* The outbound call fails within the timeout
OutboundFailure ==
    /\ pc = "outbound"
    /\ UNCHANGED watch_vars
    /\ \E e \in OutboundErrors, t \in Latencies :
            /\ t <= TIMEOUT_TOTAL
            /\ raised' = {e}
            /\ elapsed' = t
            /\ response' = {proxy_failure(e)}
            /\ pc' = "done"
            /\ UNCHANGED <<files, parked, behind, request, called, pending, origin, inbound,
                           outbound>>

\* handle_request, local branch: serve_file runs to its response or to the
\* file read it hands to the executor
ServeFile(paths, inbounds) ==
    /\ pc = "idle"
    /\ UNCHANGED watch_vars
    /\ \E m \in Methods, p \in paths, inb \in inbounds :
            /\ handle_request(m, p) = "serve_file"
            /\ request' = [method |-> m, path |-> p]
            /\ inbound' = inb
            /\ behind' = waiting
            /\ called' = {"serve_file"}
            /\ LET r == serve_file(p, files) IN
               IF r.kind = "response"
               THEN /\ response' = {r.response}
                    /\ pending' = {}
                    /\ pc' = "done"
               ELSE /\ response' = {}
                    /\ pending' = {r}
                    /\ pc' = "read_file"
            /\ UNCHANGED <<files, parked, origin, raised, elapsed, outbound>>

\* The executor's read_bytes() returns the contents or raises
ReadFile ==
    /\ pc = "read_file"
    /\ UNCHANGED watch_vars
    /\ \E ok \in BOOLEAN :
            /\ response' = { serve_file_done(CHOOSE r \in pending : TRUE, ok) }
            /\ raised' = IF ok THEN {}
                         ELSE { [type |-> "PermissionError",
                                 bases |-> {"OSError", "Exception"},
                                 msg |-> "Permission denied"] }
            /\ pc' = "done"
            /\ UNCHANGED <<files, parked, behind, request, called, pending, origin, elapsed,
                           inbound, outbound>>

\* The response is sent (or the failure reported) and the handler is gone
Finish ==
    /\ pc \in {"done", "failed"}
    /\ UNCHANGED watch_vars
    /\ pc' = "idle"
    /\ request' = NoRequest
    /\ called' = {}
    /\ pending' = {}
    /\ origin' = {}
    /\ raised' = {}
    /\ elapsed' = 0
    /\ response' = {}
    /\ inbound' = NoInbound
    /\ outbound' = {}
    /\ behind' = {}
    /\ UNCHANGED <<files, parked>>

\* The event loop turns to another task: the task in progress has yielded at
\* an await or has returned, and parked task t is resumed
Switch(t) ==
    /\ yields_loop(pc)
    /\ UNCHANGED watch_vars
    /\ parked' = [u \in DOMAIN parked |->
                    [(IF u = t THEN current ELSE parked[u])
                        EXCEPT !.behind = @ \ {t}]]
    /\ pc' = parked[t].pc
    /\ request' = parked[t].request
    /\ called' = parked[t].called
    /\ pending' = parked[t].pending
    /\ origin' = parked[t].origin
    /\ raised' = parked[t].raised
    /\ elapsed' = parked[t].elapsed
    /\ response' = parked[t].response
    /\ inbound' = parked[t].inbound
    /\ outbound' = parked[t].outbound
    /\ behind' = parked[t].behind \ {t}
    /\ UNCHANGED files

Handlers(paths, answers, inbounds) ==
    \/ HandleOptions(paths, inbounds)
    \/ ProxyRequest(paths, inbounds)
    \/ ReadBody
    \/ OutboundResponse(answers)
    \/ OutboundTimeout
    \/ OutboundFailure
    \/ ServeFile(paths, inbounds)
    \/ ReadFile
    \/ Finish

\* Every request path, plain origin answers
Next == Handlers(RequestPaths, PlainResponses, PlainInbound)

Spec == Init /\ [][Next]_vars

\* A few request paths, every origin answer
NextProxy == Handlers(FewPaths, OriginResponses, PlainInbound)

SpecProxy == Init /\ [][NextProxy]_vars

\* A few request paths, plain origin answers, every inbound request
NextOutbound == Handlers(FewPaths, PlainResponses, InboundRequests)

SpecOutbound == Init /\ [][NextOutbound]_vars

\* Two request paths and one origin answer
ConcPaths == { <<"/">> \o N_SPAAPI, <<"/">> \o N_APPJS }

ConcAnswers ==
    { [status |-> 200, headers |-> <<>>, body |-> <<"{\"ok\":true}">>] }

\* Several requests in progress on the one event loop
NextConc ==
    \/ Handlers(ConcPaths, ConcAnswers, PlainInbound)
    \/ \E t \in DOMAIN parked : Switch(t)

SpecConc == Init /\ [][NextConc]_vars

(***************************************************************************)
(* dev-server.py: main(), FileWatcher.start/stop and watch_loop.           *)
(***************************************************************************)
\* Somebody creates, removes or rewrites a file of the tree
Modify ==
    /\ main_pc \notin {"exited", "crashed"}
    /\ \E f \in DiskFiles, t \in Mtimes :
            /\ t # disk[f]
            /\ disk' = [disk EXCEPT ![f] = t]
    /\ UNCHANGED <<main_pc, watch_pc, running, file_times, changed, logged,
                   calls, last, compiled, touched>>
    /\ UNCHANGED server_vars

\* main: the initial compile_typescript() starts the compiler
MainCompileBegin ==
    /\ main_pc = "compile_typescript"
    /\ main_pc' = "subprocess.run"
    /\ compiled' = get_watched_files(disk)
    /\ UNCHANGED <<disk, watch_pc, running, file_times, changed, logged, calls,
                   last, touched>>
    /\ UNCHANGED server_vars

\* main: the compiler run ends one way or another
MainCompileEnd ==
    /\ main_pc = "subprocess.run"
    /\ \E o \in Outcomes :
            main_pc' = IF compile_typescript(o).raised THEN "crashed"
                       ELSE "watcher.start"
    /\ UNCHANGED <<disk, watch_pc, running, file_times, changed, logged, calls,
                   last, compiled, touched>>
    /\ UNCHANGED server_vars

\* FileWatcher.start up to thread.start(): the first snapshot is taken and
\* the watcher thread begins watch_loop
WatcherStart ==
    /\ main_pc = "watcher.start"
    /\ running' = TRUE
    /\ file_times' = get_watched_files(disk)
    /\ watch_pc' = "test"
    /\ touched' = {}
    /\ main_pc' = "log"
    /\ UNCHANGED <<disk, changed, logged, calls, last, compiled>>
    /\ UNCHANGED server_vars

\* FileWatcher.start after thread.start(): log(f"Watching
\* {len(self.file_times)} TypeScript files ..."), then main serves
StartLog ==
    /\ main_pc = "log"
    /\ touched' = touched \cup {"main"}
    /\ main_pc' = "serve_forever"
    /\ UNCHANGED <<disk, watch_pc, running, file_times, changed, logged, calls,
                   last, compiled>>
    /\ UNCHANGED server_vars

\* main: KeyboardInterrupt in serve_forever, watcher.stop() has returned
WatcherStop ==
    /\ main_pc = "serve_forever"
    /\ running' = FALSE
    /\ main_pc' = "httpd.shutdown"
    /\ UNCHANGED <<disk, watch_pc, file_times, changed, logged, calls, last,
                   compiled, touched>>
    /\ UNCHANGED server_vars

\* main returns: the process exits and takes its daemon thread and its
\* memory with it
MainExit ==
    /\ main_pc = "httpd.shutdown"
    /\ main_pc' = "exited"
    /\ watch_pc' = IF watch_pc = "exited" THEN "exited" ELSE "killed"
    /\ file_times' = <<>>
    /\ changed' = FALSE
    /\ logged' = {}
    /\ calls' = 0
    /\ UNCHANGED <<disk, running, last, compiled, touched>>
    /\ UNCHANGED server_vars

\* watch_loop: while self.running
LoopTest ==
    /\ watch_pc = "test"
    /\ watch_pc' = IF running THEN "sleep" ELSE "exited"
    /\ UNCHANGED <<disk, main_pc, running, file_times, changed, logged, calls,
                   last, compiled, touched>>
    /\ UNCHANGED server_vars

\* watch_loop: time.sleep(1) is over
Sleep ==
    /\ watch_pc = "sleep"
    /\ watch_pc' = "check"
    /\ UNCHANGED <<disk, main_pc, running, file_times, changed, logged, calls,
                   last, compiled, touched>>
    /\ UNCHANGED server_vars

\* watch_loop: if self.check_changes(): self.callback() starts the compiler
CheckChanges ==
    /\ watch_pc = "check"
    /\ LET r == check_changes(file_times, get_watched_files(disk)) IN
          /\ file_times' = r.file_times
          /\ changed' = r.changed
          /\ logged' = r.log
          /\ IF callbacks_due(r.changed, r.log) > 0
             THEN /\ watch_pc' = "callback"
                  /\ calls' = calls + 1
                  /\ compiled' = get_watched_files(disk)
             ELSE /\ watch_pc' = "test"
                  /\ UNCHANGED <<calls, compiled>>
    /\ touched' = touched \cup {"watcher"}
    /\ UNCHANGED <<disk, main_pc, running, last>>
    /\ UNCHANGED server_vars

\* watch_loop: the compiler run of the callback ends one way or another;
\* with no callback left to make, the poll cycle is over
CallbackEnd ==
    /\ watch_pc = "callback"
    /\ \E o \in Outcomes :
            /\ last' = o
            /\ IF compile_typescript(o).raised
               THEN /\ watch_pc' = "crashed"
                    /\ UNCHANGED <<changed, logged, calls, compiled>>
               ELSE IF calls < callbacks_due(changed, logged)
               THEN /\ watch_pc' = "callback"
                    /\ calls' = calls + 1
                    /\ compiled' = get_watched_files(disk)
                    /\ UNCHANGED <<changed, logged>>
               ELSE /\ watch_pc' = "test"
                    /\ changed' = FALSE
                    /\ logged' = {}
                    /\ calls' = 0
                    /\ UNCHANGED compiled
    /\ UNCHANGED <<disk, main_pc, running, file_times, touched>>
    /\ UNCHANGED server_vars

NextWatch ==
    \/ Modify
    \/ MainCompileBegin
    \/ MainCompileEnd
    \/ WatcherStart
    \/ StartLog
    \/ WatcherStop
    \/ MainExit
    \/ LoopTest
    \/ Sleep
    \/ CheckChanges
    \/ CallbackEnd

\* dev-server.py runs in a directory of its own
InitWatch == Init /\ files = FixedFiles

SpecWatch == InitWatch /\ [][NextWatch]_vars

(***************************************************************************)
(* Properties of the Router.                                               *)
(***************************************************************************)
InProgress == pc # "idle"

HasProxyPrefix(path) ==
    \/ startswith(path, <<"/", "s", "p", "a", "-", "a", "p", "i">>)
    \/ startswith(path, <<"/", "s", "p", "w", "g", "-", "a", "p", "i">>)
    \/ startswith(path, <<"/", "t", "h", "e", "m", "e", "/">>)

\* C1: a request whose method is not OPTIONS is delegated to proxy_request
\* alone if its path starts with one of the proxy prefixes, and to serve_file
\* alone otherwise; never to both, never to neither.
C1_RouterDelegation ==
    (InProgress /\ request.method # "OPTIONS") =>
        called = IF HasProxyPrefix(request.path) THEN {"proxy_request"}
                 ELSE {"serve_file"}

\* A GET under the third prefix, /theme/app.js, has gone to the Forwarder
W1_ThemeProxied ==
    /\ InProgress
    /\ request.method = "GET"
    /\ request.path = <<"/">> \o N_THEME \o <<"/">> \o N_APPJS
    /\ called = {"proxy_request"}

TheThreeCorsHeaders ==
    { hdr("Access-Control-Allow-Origin", <<"*">>),
      hdr("Access-Control-Allow-Methods", <<"GET, POST, OPTIONS">>),
      hdr("Access-Control-Allow-Headers", <<"Content-Type">>) }

\* C2: an OPTIONS request, whatever its path, gets a response with an empty
\* body and exactly the three CORS headers, and neither proxy_request nor
\* serve_file is invoked.
C2_OptionsPreflight ==
    (InProgress /\ request.method = "OPTIONS") =>
        /\ called = {"handle_options"}
        /\ pc = "done"
        /\ pending = {} /\ origin = {} /\ raised = {}
        /\ \A r \in response :
              /\ r.body = <<>>
              /\ Len(r.headers) = 3
              /\ { r.headers[i] : i \in 1..Len(r.headers) } = TheThreeCorsHeaders
        /\ response # {}

\* OPTIONS /spa-api/../.. : under a proxy prefix and leaving the root
W2_OptionsOnProxiedEscapingPath ==
    /\ InProgress
    /\ request.method = "OPTIONS"
    /\ request.path = <<"/">> \o N_SPAAPI \o <<"/">> \o DOTDOT \o <<"/">> \o DOTDOT
    /\ ~within_base(resolve(joinpath(BASE_DIR, lstrip_slash(request.path))))
    /\ response # {}

AllowsAnyOrigin(r) ==
    \E i \in 1..Len(r.headers) :
        /\ r.headers[i].name = "Access-Control-Allow-Origin"
        /\ r.headers[i].value = <<"*">>

\* C3: every response handle_request returns carries
\* Access-Control-Allow-Origin: *, be it the OPTIONS response, a proxied
\* success or failure, or a response of serve_file.
X3_EveryResponseAllowsAnyOrigin ==
    \A r \in response : AllowsAnyOrigin(r)

(***************************************************************************)
(* Properties of the Resolver.                                             *)
(***************************************************************************)
Served == called = {"serve_file"}

\* The request path holds a "../" sequence
HasDotDotSlash(path) == find_from(path, <<".", ".", "/">>, 1) # 0

\* The request path, resolved against BASE_DIR, leaves BASE_DIR
EscapesBase(path) ==
    LET r == resolve(joinpath(BASE_DIR, lstrip_slash(path))) IN
    ~(r # <<>> /\ r[1] = N_APP)

\* C4: a request path with "../" sequences that resolves to a location
\* outside BASE_DIR is answered 403 by serve_file, also when its last
\* component has no file extension (/../../etc/passwd).
X4_TraversalForbidden ==
    (Served /\ pc = "done" /\ HasDotDotSlash(request.path)
        /\ EscapesBase(request.path)) =>
        \A r \in response : r.status = 403

\* A canonical path: no ".." component and no symbolic link on the way
IsCanonical(fp) ==
    \A i \in 1..Len(fp) : fp[i] # DOTDOT /\ SubSeq(fp, 1, i) \notin SYMLINKS

UnderBase(fp) == fp # <<>> /\ fp[1] = N_APP

\* C5: whenever serve_file reads a file and returns its contents, the file's
\* canonical path is BASE_DIR or below it; the contents of a file outside
\* the root are never served.
C5_PathContainment ==
    Served =>
        /\ \A r \in pending :
              IsCanonical(r.file_path) /\ UnderBase(r.file_path)
                 /\ r.file_path \in files
        /\ \A r \in response :
              r.status = 200 =>
                 /\ pending # {}
                 /\ r.body \in { <<read_bytes(f)>> : f \in { g \in files : UnderBase(g) } }

\* GET /docs/../app.js is served from BASE_DIR/app.js
W5_DotDotInsideBase ==
    /\ Served /\ pc = "done"
    /\ request.path = <<"/">> \o N_DOCS \o <<"/">> \o DOTDOT \o <<"/">> \o N_APPJS
    /\ \E r \in response : r.status = 200 /\ r.body = <<"console.log('app')">>

\* The candidate BASE_DIR / path has no extension and is no directory
IsSpaRoute(path, fs) ==
    LET stripped == lstrip_slash(path)
        fp == joinpath(BASE_DIR, stripped)
    IN  /\ stripped # <<>>
        /\ suffix(path_name(fp)) = <<>>
        /\ os_walk(<<>>, fp, fs) \cap DIRS = {}

RootIndexPresent == (BASE_DIR \o <<INDEX_HTML>>) \in files

\* C6 as stated: such a request is answered 200 with the contents of the
\* root index.html.
X6_SpaFallbackAlways200 ==
    (Served /\ pc = "done" /\ IsSpaRoute(request.path, files) /\ RootIndexPresent) =>
        \A r \in response :
            r.status = 200 /\ r.body = <<"<html>app shell</html>">>

\* C6 (amended): for a request path whose candidate has no extension and is
\* not a directory, with a regular index.html at the root, serve_file reads
\* the root index.html and answers 200 with its contents, or 500 when that
\* read fails; never 403 or 404, and never another file's contents.
C6_SpaFallback ==
    (Served /\ IsSpaRoute(request.path, files) /\ RootIndexPresent) =>
        /\ pending # {}
        /\ \A r \in pending : r.file_path = BASE_DIR \o <<INDEX_HTML>>
        /\ pc \in {"read_file", "done"}
        /\ pc = "done" => response # {}
        /\ \A r \in response :
              IF raised = {}
              THEN r.status = 200 /\ r.body = <<"<html>app shell</html>">>
              ELSE r.status = 500

\* GET /settings is answered with the app shell
W6_SettingsGetsIndex ==
    /\ Served /\ pc = "done" /\ RootIndexPresent
    /\ request.path = <<"/">> \o N_SETTINGS
    /\ IsSpaRoute(request.path, files)
    /\ \E r \in response : r.status = 200 /\ r.body = <<"<html>app shell</html>">>

(***************************************************************************)
(* Properties of the Forwarder.                                            *)
(***************************************************************************)
\* A proxied call that got the origin's response
Forwarded == called = {"proxy_request"} /\ pc = "done" /\ origin # {}

\* The lines of a header sequence that satisfy Keep, in order
Lines(hs, Keep(_)) == SelectSeq(hs, Keep)

IsSetCookie(h) == lower(h.name) = "set-cookie"

\* The attributes of a cookie value: the pieces between semicolons
RECURSIVE attrs_acc(_, _, _)
attrs_acc(v, cur, acc) ==
    IF v = <<>> THEN Append(acc, cur)
    ELSE IF Head(v) = ";" THEN attrs_acc(Tail(v), <<>>, Append(acc, cur))
    ELSE attrs_acc(Tail(v), Append(cur, Head(v)), acc)

RECURSIVE join_attrs(_)
join_attrs(as) ==
    IF as = <<>> THEN <<>>
    ELSE IF Len(as) = 1 THEN as[1]
    ELSE as[1] \o <<";">> \o join_attrs(Tail(as))

IsSecureAttr(a) ==
    a \in { <<"S", "e", "c", "u", "r", "e">>, <<" ", "S", "e", "c", "u", "r", "e">> }

\* The cookie value without its Secure attributes, the others kept in order
WithoutSecure(v) ==
    join_attrs(SelectSeq(attrs_acc(v, <<>>, <<>>), LAMBDA a : ~IsSecureAttr(a)))

\* C7: every Set-Cookie value of the origin response has a corresponding
\* Set-Cookie header in the forwarded response, equal to that value with
\* "; Secure" and ";Secure" removed and the other attributes unchanged and
\* in order (so unchanged as a whole when it holds neither).
X7_CookieRewrite ==
    Forwarded =>
        \A o \in origin, r \in response :
            LET sent == Lines(o.headers, IsSetCookie)
                got  == Lines(r.headers, IsSetCookie)
            IN  /\ Len(got) = Len(sent)
                /\ \A i \in 1..Len(sent) :
                      /\ i <= Len(got)
                      /\ got[i].value = WithoutSecure(sent[i].value)

IsCorsName(n) ==
    lower(n) \in { "access-control-allow-origin", "access-control-allow-methods",
                   "access-control-allow-headers" }

IsTransportName(n) ==
    lower(n) \in { "transfer-encoding", "connection", "content-encoding" }

Occurrences(hs, h) == Cardinality({ i \in 1..Len(hs) : hs[i] = h })

\* An origin header line as it is expected in the forwarded response
AsForwarded(h) ==
    IF IsSetCookie(h) THEN hdr(h.name, WithoutSecure(h.value)) ELSE h

\* C8: on a successful proxied call the forwarded response has no
\* Transfer-Encoding, Connection or Content-Encoding header (in any case),
\* and every other header occurrence of the origin response is in it, each
\* occurrence of a repeated name included.  (The three CORS names, which the
\* Forwarder sets itself, are left out of the comparison.)
X8_HeaderFiltering ==
    Forwarded =>
        \A o \in origin, r \in response :
            /\ \A i \in 1..Len(r.headers) : ~IsTransportName(r.headers[i].name)
            /\ \A i \in 1..Len(o.headers) :
                  LET h == o.headers[i]
                      expected == [ j \in 1..Len(o.headers) |-> AsForwarded(o.headers[j]) ]
                  IN  (~IsTransportName(h.name) /\ ~IsCorsName(h.name)) =>
                         Occurrences(r.headers, AsForwarded(h))
                            >= Occurrences(expected, AsForwarded(h))

\* The values the response gives a header name, compared without case
ValuesOf(hs, n) ==
    { <<i, hs[i].value>> : i \in { j \in 1..Len(hs) : lower(hs[j].name) = lower(n) } }

\* C9: on a successful proxied call each of the three CORS headers has exactly
\* one value in the forwarded response, the fixed one, also when the origin
\* sent a header of that name (in any case) with another value.
X9_CorsOverride ==
    Forwarded =>
        \A r \in response :
            /\ \E i \in 1..Len(r.headers) :
                  ValuesOf(r.headers, "Access-Control-Allow-Origin") = { <<i, <<"*">>>> }
            /\ \E i \in 1..Len(r.headers) :
                  ValuesOf(r.headers, "Access-Control-Allow-Methods")
                     = { <<i, <<"GET, POST, OPTIONS">>>> }
            /\ \E i \in 1..Len(r.headers) :
                  ValuesOf(r.headers, "Access-Control-Allow-Headers")
                     = { <<i, <<"Content-Type">>>> }

\* C10: an outbound call that runs beyond the 30-second timeout is answered
\* 504 with the body "Proxy timeout"; any other transport failure is answered
\* 502; a failure that is both a timeout and a transport error is answered
\* 504, never 502.
C10_FailureMapping ==
    (called = {"proxy_request"} /\ pc = "done") =>
        \A r \in response :
            /\ elapsed > 30 => (r.status = 504 /\ r.body = <<"Proxy timeout">>)
            /\ \A e \in raised :
                  /\ "asyncio.TimeoutError" \in e.bases =>
                        (r.status = 504 /\ r.body = <<"Proxy timeout">>)
                  /\ ("aiohttp.ClientError" \in e.bases
                         /\ "asyncio.TimeoutError" \notin e.bases) =>
                        r.status = 502
            /\ r.status = 502 =>
                  \E e \in raised : "asyncio.TimeoutError" \notin e.bases

\* A ServerTimeoutError, both a ClientError and a TimeoutError, became a 504
W10_TimeoutAndTransportError ==
    /\ called = {"proxy_request"} /\ pc = "done"
    /\ \E e \in raised :
          {"asyncio.TimeoutError", "aiohttp.ClientError"} \subseteq e.bases
    /\ \E r \in response : r.status = 504

\* C11: no exception propagates out of proxy_request: whatever happens,
\* the failure of the read of the inbound POST body included, the call ends
\* with an HTTP response and never with a raised exception.
X11_ProxyNeverRaises ==
    (called = {"proxy_request"} /\ pc \in {"done", "failed"}) =>
        (pc = "done" /\ response # {})

\* C12: every unexpected internal failure is answered 500 with one generic
\* body, the same for every failure, and the body never holds the message
\* of the exception.
X12_GenericInternalError ==
    pc = "done" =>
        \A e \in raised :
            ("asyncio.TimeoutError" \notin e.bases
                /\ "aiohttp.ClientError" \notin e.bases) =>
                \A r \in response :
                    /\ r.status = 500
                    /\ r.body = <<"Internal Server Error">>
                    /\ \A i \in 1..Len(r.body) : r.body[i] # e.msg

(***************************************************************************)
(* Properties of the outbound request.                                     *)
(***************************************************************************)
IsUserAgentName(n)   == n \in {"User-Agent", "user-agent"}
IsContentTypeName(n) == n \in {"Content-Type", "content-type"}
IsCookieName(n)      == n \in {"Cookie", "cookie"}

\* The inbound header lines that may reach the origin, the others dropped
Relevant(h) ==
    SelectSeq(h, LAMBDA x : \/ IsUserAgentName(x.name)
                            \/ IsContentTypeName(x.name)
                            \/ IsCookieName(x.name))

\* The values outbound header n may have, given the relevant inbound lines
Allowed(h, n) ==
    LET values(Is(_)) == { h[i].value : i \in { j \in 1..Len(h) : Is(h[j].name) } }
    IN  CASE n = "User-Agent" ->
                IF values(IsUserAgentName) = {} THEN { <<"Mozilla/5.0">> }
                ELSE values(IsUserAgentName)
          [] n = "Content-Type" ->
                IF values(IsContentTypeName) = {} THEN { <<"application/json">> }
                ELSE values(IsContentTypeName)
          [] n = "Cookie" -> values(IsCookieName)
          [] OTHER -> {}

\* C13: the outbound request goes to PROXY_HOST followed by the original
\* path and query, and its headers are exactly User-Agent (the inbound value
\* or Mozilla/5.0), Content-Type (the inbound value or application/json)
\* and, only when the inbound request has one, Cookie, each once: nothing of
\* the other inbound headers reaches the origin, so requests that differ
\* only in those produce the same outbound request.
C13_MinimalOutboundHeaders ==
    (called = {"proxy_request"} /\ pc \in {"outbound", "done"}) =>
        /\ outbound # {}
        /\ \A o \in outbound :
              /\ o.method = request.method
              /\ o.url = <<"https://iwalton.com">> \o request.path
                            \o (IF inbound.query = <<>> THEN <<>>
                                ELSE <<"?">> \o inbound.query)
              /\ o.data = IF request.method = "POST" THEN {inbound.body} ELSE {}
              /\ { o.headers[i].name : i \in 1..Len(o.headers) }
                    = { n \in {"User-Agent", "Content-Type", "Cookie"} :
                          Allowed(Relevant(inbound.headers), n) # {} }
              /\ \A i \in 1..Len(o.headers) :
                    o.headers[i].value
                       \in Allowed(Relevant(inbound.headers), o.headers[i].name)
              /\ \A i, j \in 1..Len(o.headers) :
                    o.headers[i].name = o.headers[j].name => i = j

\* A POST with a query string, a cookie, a Host and an Authorization line but
\* no User-Agent and no Content-Type has been sent on with three headers
W13_PostWithCookieAndAuthorization ==
    /\ called = {"proxy_request"} /\ pc = "outbound"
    /\ request.method = "POST" /\ inbound.query # <<>>
    /\ { inbound.headers[i].name : i \in 1..Len(inbound.headers) }
          = {"Cookie", "Host", "Authorization"}
    /\ \A o \in outbound : Len(o.headers) = 3

(***************************************************************************)
(* Properties of the event loop.                                           *)
(***************************************************************************)
\* A new request can be dispatched to one of the three handlers
CanDispatch ==
    \/ ENABLED HandleOptions(ConcPaths, PlainInbound)
    \/ ENABLED ProxyRequest(ConcPaths, PlainInbound)
    \/ ENABLED ServeFile(ConcPaths, PlainInbound)

\* The request in progress can take its next step
CanStep ==
    \/ ENABLED ReadBody
    \/ ENABLED OutboundResponse(ConcAnswers)
    \/ ENABLED ReadFile

\* C14: a handler that waits for its outbound response, for the inbound
\* body or for its file read holds nothing back: the loop can turn to any
\* other task, and however many tasks are waiting, a new request can be
\* dispatched and a request in progress can go on.
C14_NoHeadOfLineBlocking ==
    /\ pc \in {"read_body", "outbound", "read_file"} =>
          \A t \in 1..NumParked : ENABLED Switch(t)
    /\ pc = "idle" => CanDispatch
    /\ pc \in {"read_body", "outbound", "read_file"} => CanStep
    /\ \A t \in behind : parked[t].pc \in {"read_body", "outbound", "read_file"}

\* A request was dispatched while every other task was waiting for its
\* origin, and has its response while they all still wait
W14_CompletedWhileOthersWait ==
    /\ pc = "done" /\ response # {}
    /\ behind = 1..NumParked
    /\ \A t \in 1..NumParked : parked[t].pc = "outbound"

(***************************************************************************)
(* Properties of the change watcher.                                       *)
(***************************************************************************)
\* The snapshot a scan of the tree gives now: a.ts and b.ts when they exist
Fresh ==
    [f \in { g \in { <<"a", ".", "t", "s">>, <<"b", ".", "t", "s">> } :
                disk[g] # 0 } |-> disk[f]]

\* C15: in a poll cycle that detects at least one changed file, however
\* many, the build callback is invoked exactly once; in a cycle that detects
\* none it is not invoked.
C15_OneCallbackPerCycle ==
    /\ watch_pc = "callback" => (calls = 1 /\ logged # {})
    /\ watch_pc \in {"test", "sleep", "check", "exited"} =>
          (calls = 0 /\ logged = {})

\* Two files changed between two polls and the one callback is running
W15_TwoFilesOneCallback ==
    /\ watch_pc = "callback"
    /\ Cardinality(logged) = 2
    /\ calls = 1

\* C16: however the compiler run ends (exit code 0, another exit code, no
\* executable, any other exception) compile_typescript returns: the initial
\* compilation is followed by the start of the watcher, and a callback of the
\* watcher thread by the next test of the loop, unless the process has ended.
C16_CallbackNeverAbortsLoop ==
    [][ /\ (watch_pc = "callback" /\ watch_pc' # "callback") =>
              watch_pc' \in {"test", "killed"}
        /\ (main_pc = "subprocess.run" /\ main_pc' # "subprocess.run") =>
              main_pc' = "watcher.start"
        /\ (watch_pc = "test" /\ running /\ watch_pc' # "test") =>
              watch_pc' \in {"sleep", "killed"} ]_vars

\* A change was detected and a callback started after a callback whose
\* compiler run had raised an unexpected exception
W16_NextBuildAfterFailedOne ==
    /\ last = "error"
    /\ watch_pc = "callback"
    /\ running

\* C17: check_changes returns true exactly when the fresh snapshot differs
\* from the stored one as a mapping, and in either case stores the fresh
\* one.
C17_SnapshotDiff ==
    [][ (watch_pc = "check" /\ watch_pc' \in {"callback", "test"}) =>
            /\ changed' = (file_times # Fresh)
            /\ (watch_pc' = "callback") = (file_times # Fresh)
            /\ file_times' = Fresh ]_vars

\* A poll whose only finding is that a.ts is gone returned true
W17_DeletionDetected ==
    /\ watch_pc = "callback"
    /\ changed
    /\ logged = { <<"Deleted", <<"a", ".", "t", "s">>>> }
    /\ file_times = Fresh

\* C18: no build callback is started after stop() has returned.
X18_NoCallbackAfterStop ==
    [][ (main_pc = "httpd.shutdown" \/ main_pc = "exited") =>
            ~(watch_pc # "callback" /\ watch_pc' = "callback") ]_vars

\* C19: no change is lost: when the running watcher has nothing left to
\* detect, its stored snapshot being the state of the tree, the last
\* compilation began with the tree as it is now.
X19_NoLostChange ==
    (running /\ watch_pc \in {"test", "sleep", "check"} /\ file_times = Fresh) =>
        compiled = Fresh

\* C20: two compiler runs never overlap, and once start() has launched the
\* loop file_times is used by one thread only.
X20_OneCompilerOneOwner ==
    /\ ~(main_pc = "subprocess.run" /\ watch_pc = "callback")
    /\ Cardinality(touched) <= 1

====
